---- MODULE Spec2Model ----
(***************************************************************************)
(* Tabular edit-overlay and view engine of src/views.py: DataIngestionView *)
(* (ingest), DataGridView (getPage, applyEdits) and DataPreviewView        *)
(* (getPreview) over one project and one uploaded file.                    *)
(***************************************************************************)
EXTENDS Integers, Sequences, FiniteSets, TLC

VARIABLES
    uploaded_file,   \* the UploadedFile the project holds (fixed after Init)
    tables,          \* DataTable.objects: the stored DataTable records, oldest first
    req,             \* the HTTP request being answered, NoReq between requests
    resp,            \* its Response, NoResp between requests
    pc,              \* SpecConc: each worker's position in its handler
    local            \* SpecConc: each worker's request and loaded model instance

vars == <<uploaded_file, tables, req, resp, pc, local>>

----------------------------------------------------------------------------
(* Bounds of the model *)

\* An uploaded file has 0..MaxRows data rows.
MaxRows == 3
\* A request's edits hold at most MaxItems items: cells, empty rows, non-object rows.
MaxItems == 2
\* SpecConc: each worker serves at most MaxServed requests.
MaxServed == 2

(* Program constants *)

\* "if parsed_data["num_rows"] <= 10000", "nrows=10000"
CAP == 10000
\* "limit = max(1, min(limit, 10000))"
LimitMax == 10000
\* request.query_params.get("limit", 1000)
DefaultLimit == 1000

----------------------------------------------------------------------------
(* JSON values. v is the value's Python str(): the text of a string, the   *)
(* repr of a number ("1", "7.0", "nan"), "True"/"False", "None".           *)

JNull == [t |-> "null", v |-> "None"]
JBool(b) == [t |-> "boolean", v |-> IF b THEN "True" ELSE "False"]
JNum(s) == [t |-> "number", v |-> s]
JStr(s) == [t |-> "string", v |-> s]
JList == [t |-> "list", v |-> "[]"]
JObj == [t |-> "object", v |-> "{}"]

\* What a parser (pandas) hands over before sanitizing.
NpNaN == [t |-> "nan", v |-> "nan"]
NpScalar(s) == [t |-> "numpy", v |-> s]
PdTimestamp(s) == [t |-> "Timestamp", v |-> s]

\* float(s) of a str: [ok, v]; not ok is ValueError.
PyFloat(s) ==
    CASE s = "1" -> [ok |-> TRUE, v |-> "1.0"]
      [] s = "7" -> [ok |-> TRUE, v |-> "7.0"]
      [] s = "nan" -> [ok |-> TRUE, v |-> "nan"]
      [] s = "inf" -> [ok |-> TRUE, v |-> "inf"]
      [] OTHER -> [ok |-> FALSE, v |-> s]

\* str.lower()
PyLower(s) ==
    CASE s = "Yes" -> "yes"
      [] s = "True" -> "true"
      [] OTHER -> s

\* A dict with no key.
EmptyDict == [k \in {} |-> JNull]

\* d1.update(d2): d2's keys replace d1's whole entries.
DictUpdate(d1, d2) ==
    [k \in DOMAIN d1 \cup DOMAIN d2 |-> IF k \in DOMAIN d2 THEN d2[k] ELSE d1[k]]

\* d[k] = x
DictSet(d, k, x) ==
    [j \in DOMAIN d \cup {k} |-> IF j = k THEN x ELSE d[j]]

----------------------------------------------------------------------------
(* Row index strings: a str is the sequence of its characters.             *)

Digits == <<"0", "1", "2", "3", "4", "5", "6", "7", "8", "9">>

IsDigit(c) == \E d \in 1..10 : Digits[d] = c

DigitVal(c) == (CHOOSE d \in 1..10 : Digits[d] = c) - 1

RECURSIVE DigitsVal(_)
DigitsVal(s) ==
    IF s = <<>> THEN 0
    ELSE 10 * DigitsVal(SubSeq(s, 1, Len(s) - 1)) + DigitVal(s[Len(s)])

\* int(row_index_str): [ok, n]; not ok is ValueError.
PyInt(s) ==
    IF s # <<>> /\ \A i \in 1..Len(s) : IsDigit(s[i])
    THEN [ok |-> TRUE, n |-> DigitsVal(s)]
    ELSE IF Len(s) >= 2 /\ s[1] = "-" /\ \A i \in 2..Len(s) : IsDigit(s[i])
    THEN [ok |-> TRUE, n |-> 0 - DigitsVal(SubSeq(s, 2, Len(s)))]
    ELSE [ok |-> FALSE, n |-> 0]

\* str(row_index)
RECURSIVE PyStrNat(_)
PyStrNat(n) ==
    IF n < 10 THEN <<Digits[n + 1]>>
    ELSE PyStrNat(n \div 10) \o <<Digits[(n % 10) + 1]>>

PyStrInt(n) == IF n < 0 THEN <<"-">> \o PyStrNat(0 - n) ELSE PyStrNat(n)

----------------------------------------------------------------------------
(* Uploaded files and the parser *)

SchemaAB == [a |-> "number", b |-> "string"]
SchemaA == [a |-> "number"]
SchemaTypes == [n |-> "number", f |-> "boolean", s |-> "string", d |-> "date"]

\* The cell pandas reads in data row i (1-based) of a column of the given type.
ParsedCell(type, i, n) ==
    CASE type = "number" -> NpScalar(ToString(100 + i))
      [] type = "boolean" -> JBool(i % 2 = 1)
      [] type = "date" -> PdTimestamp("2024-01-0" \o ToString(i))
      [] OTHER -> IF i = n /\ n > 1 THEN NpNaN ELSE JStr("s" \o ToString(i))

\* df.to_dict(orient="records") of a file with n data rows.
ParsedRows(schema, n) ==
    [i \in 1..n |-> [c \in DOMAIN schema |-> ParsedCell(schema[c], i, n)]]

\* An UploadedFile: what parsing its stored bytes gives. A file of more than
\* CAP rows is read up to nrows=10000; the model keeps its first MaxRows rows.
File(ext, schema, n, big) ==
    [ext |-> ext, schema |-> schema,
     num_rows |-> IF big THEN CAP + 1 ELSE n,
     rows |-> ParsedRows(schema, n)]

Files ==
    {File(".csv", SchemaA, n, FALSE) : n \in 0..MaxRows}
    \cup {File(".csv", SchemaAB, 2, FALSE), File(".xlsx", SchemaAB, 1, FALSE),
          File(".csv", SchemaAB, MaxRows, TRUE)}

TypeFiles == {File(".csv", SchemaTypes, n, FALSE) : n \in 0..1}

\* One value of full_data: pd.isna -> None, Timestamp -> isoformat(),
\* NumPy scalar -> item().
Canonicalize(value) ==
    CASE value.t = "nan" -> JNull
      [] value.t = "Timestamp" -> JStr(value.v)
      [] value.t = "numpy" -> JNum(value.v)
      [] OTHER -> value

\* The loop over full_data's records.
Sanitize(records) ==
    [i \in 1..Len(records) |->
        [key \in DOMAIN records[i] |-> Canonicalize(records[i][key])]]

\* The re-parse for the full data: pd.read_csv / pd.read_excel by extension,
\* df None for any other extension. [is_none, rows]
ReadFullData(file) ==
    IF file.ext \in {".csv", ".xlsx"}
    THEN [is_none |-> FALSE, rows |-> Sanitize(file.rows)]
    ELSE [is_none |-> TRUE, rows |-> <<>>]

\* parse_file(uploaded_file): schema, num_rows and a sample of the rows.
ParseFile(file) ==
    [schema |-> file.schema, num_rows |-> file.num_rows,
     sample_data |-> Sanitize(SubSeq(file.rows, 1, IF Len(file.rows) = 0 THEN 0 ELSE 1))]

----------------------------------------------------------------------------
(* DataTable *)

\* DataTable.objects.create(...)
DataTable(schema, num_rows, sample, full) ==
    [schema_json |-> schema, num_rows |-> num_rows, sample_json |-> sample,
     full_is_none |-> full.is_none, full_data_json |-> full.rows,
     edited_data_json |-> EmptyDict]

\* data_table.get_schema()
GetSchema(t) == t.schema_json

\* data_table.get_edited_data()
GetEditedData(t) == t.edited_data_json

\* data_table.get_data_with_edits(): None without full data, else row i is
\* full_data_json[i] with the keys of the overlay's row str(i) overridden.
GetDataWithEdits(t) ==
    IF t.full_is_none THEN [is_none |-> TRUE, rows |-> <<>>]
    ELSE [is_none |-> FALSE,
          rows |-> [i \in 1..Len(t.full_data_json) |->
                      IF PyStrInt(i - 1) \in DOMAIN t.edited_data_json
                      THEN DictUpdate(t.full_data_json[i],
                                      t.edited_data_json[PyStrInt(i - 1)])
                      ELSE t.full_data_json[i]]]

\* DataTable.objects.filter(project=project).first(): [found, t]
NoTable == [schema_json |-> EmptyDict, num_rows |-> 0, sample_json |-> <<>>,
            full_is_none |-> TRUE, full_data_json |-> <<>>,
            edited_data_json |-> EmptyDict]

FirstTable(ts) ==
    IF Len(ts) = 0 THEN [found |-> FALSE, t |-> NoTable]
    ELSE [found |-> TRUE, t |-> ts[1]]

----------------------------------------------------------------------------
(* DataGridView.patch: validation of the request's edits *)

\* A validation error: the message's kind and what it names.
Error(e, row, col, val) == [e |-> e, row |-> row, col |-> col, val |-> val]

\* The type validation of one non-null or null value against the column's
\* declared type: [ok, value]; not ok is the ValueError/TypeError caught.
CoerceValue(expected_type, new_value) ==
    IF new_value.t = "null" THEN [ok |-> TRUE, value |-> new_value]
    ELSE CASE expected_type = "number" ->
                IF new_value.t = "string"
                THEN [ok |-> PyFloat(new_value.v).ok,
                      value |-> JNum(PyFloat(new_value.v).v)]
                \* isinstance(new_value, (int, float)): a bool is an int
                ELSE [ok |-> new_value.t \in {"number", "boolean"},
                      value |-> new_value]
           [] expected_type = "boolean" ->
                IF new_value.t = "string"
                THEN [ok |-> TRUE,
                      value |-> JBool(PyLower(new_value.v) \in {"true", "1", "yes"})]
                ELSE [ok |-> new_value.t = "boolean", value |-> new_value]
           [] expected_type = "string" ->
                [ok |-> TRUE, value |-> JStr(new_value.v)]
           [] OTHER -> [ok |-> TRUE, value |-> new_value]

\* The inner loop, over row_edits.items() from item i on:
\* [errors, validated_row_edits].
RECURSIVE ValidateRowEdits(_, _, _, _, _)
ValidateRowEdits(schema, row_index, items, i, acc) ==
    IF i > Len(items) THEN acc
    ELSE LET column_name == items[i].col
             new_value == items[i].val
             c == CoerceValue(schema[column_name], new_value)
         IN  IF column_name \notin DOMAIN schema
             THEN ValidateRowEdits(schema, row_index, items, i + 1,
                    [acc EXCEPT !.errors = Append(@,
                        Error("unknown column", PyStrInt(row_index), column_name, JNull))])
             ELSE IF ~c.ok
             THEN ValidateRowEdits(schema, row_index, items, i + 1,
                    [acc EXCEPT !.errors = Append(@,
                        Error("invalid value", PyStrInt(row_index), column_name, new_value))])
             ELSE ValidateRowEdits(schema, row_index, items, i + 1,
                    [acc EXCEPT !.validated_row_edits = DictSet(@, column_name, c.value)])

\* A range check that forgets the upper end.
InRange_NoUpperBound(row_index, len_data) == 0 <= row_index

\* Line 558: 0 <= row_index < len(data)
InRange(row_index, len_data) == 0 <= row_index /\ row_index < len_data

\* The outer loop, over edits.items() from item i on:
\* [validation_errors, validated_edits].
RECURSIVE ValidateEdits(_, _, _, _, _)
ValidateEdits(schema, len_data, items, i, acc) ==
    IF i > Len(items) THEN acc
    ELSE LET row_index_str == items[i].key
             parsed == PyInt(row_index_str)
             row_index == parsed.n
             row == ValidateRowEdits(schema, row_index, items[i].items, 1,
                        [errors |-> <<>>, validated_row_edits |-> EmptyDict])
         IN  IF ~parsed.ok
             THEN ValidateEdits(schema, len_data, items, i + 1,
                    [acc EXCEPT !.validation_errors = Append(@,
                        Error("invalid row index", row_index_str, "", JNull))])
             ELSE IF ~InRange(row_index, len_data)
             THEN ValidateEdits(schema, len_data, items, i + 1,
                    [acc EXCEPT !.validation_errors = Append(@,
                        Error("out of range", PyStrInt(row_index), "", JNull))])
             ELSE IF ~items[i].is_dict
             THEN ValidateEdits(schema, len_data, items, i + 1,
                    [acc EXCEPT !.validation_errors = Append(@,
                        Error("not an object", PyStrInt(row_index), "", JNull))])
             ELSE ValidateEdits(schema, len_data, items, i + 1,
                    [validation_errors |-> acc.validation_errors \o row.errors,
                     validated_edits |->
                        IF row.validated_row_edits # EmptyDict
                        THEN DictSet(acc.validated_edits, PyStrInt(row_index),
                                     row.validated_row_edits)
                        ELSE acc.validated_edits])

NoEdits == [k \in {} |-> EmptyDict]

\* Lines 549-601: the whole validation of a request's edits.
Validate(schema, data, edits) ==
    ValidateEdits(schema, Len(data), edits.items, 1,
                  [validation_errors |-> <<>>, validated_edits |-> NoEdits])

\* A save that stores the merged rows as the full data.
ApplyEdits_StoresMerged(t, validated_edits) ==
    [t EXCEPT !.edited_data_json = DictUpdate(GetEditedData(t), validated_edits),
              !.full_data_json =
                  GetDataWithEdits([t EXCEPT !.edited_data_json = validated_edits]).rows]

\* "Apply edits", lines 614-617: current_edits.update(validated_edits), save().
ApplyEdits(t, validated_edits) ==
    [t EXCEPT !.edited_data_json = DictUpdate(GetEditedData(t), validated_edits)]

----------------------------------------------------------------------------
(* DataGridView.get: pagination *)

Min(x, y) == IF x <= y THEN x ELSE y
Max(x, y) == IF x >= y THEN x ELSE y

\* Python's x // y (floor), y # 0.
PyFloorDiv(x, y) == IF y > 0 THEN x \div y ELSE (0 - x) \div (0 - y)

\* Python's seq[start:end] on 0-based indices: a negative index counts from
\* the end, both are clamped to the sequence.
PySliceIndex(i, len) == IF i < 0 THEN Max(i + len, 0) ELSE Min(i, len)

PySlice(seq, start, end) ==
    SubSeq(seq, PySliceIndex(start, Len(seq)) + 1, PySliceIndex(end, Len(seq)))

\* A start index one page too far.
StartIndex_OffByOne(page, page_size) == page * page_size

\* Line 483: start_index = (page - 1) * page_size
StartIndex(page, page_size) == (page - 1) * page_size

NoPagination == [page |-> 0, page_size |-> 0, total_rows |-> 0,
                 total_pages |-> 0, has_next |-> FALSE, has_previous |-> FALSE]

\* Lines 481-506 on the merged data; the division for total_pages raises
\* ZeroDivisionError on page_size 0, which the framework answers with 500.
Paginate(data, page, page_size) ==
    LET total_rows == Len(data)
        start_index == StartIndex(page, page_size)
        end_index == Min(start_index + page_size, total_rows)
    IN  IF start_index >= total_rows
        THEN [status |-> 400, detail |-> "Page out of range.",
              data |-> <<>>, pagination |-> NoPagination]
        ELSE IF page_size = 0
        THEN [status |-> 500, detail |-> "ZeroDivisionError",
              data |-> <<>>, pagination |-> NoPagination]
        ELSE [status |-> 200, detail |-> "",
              data |-> PySlice(data, start_index, end_index),
              pagination |->
                [page |-> page, page_size |-> page_size,
                 total_rows |-> total_rows,
                 total_pages |-> PyFloorDiv(total_rows + page_size - 1, page_size),
                 has_next |-> end_index < total_rows,
                 has_previous |-> page > 1]]

----------------------------------------------------------------------------
(* DataPreviewView.get: sampling *)

\* The limit query parameter: an int, or text int() rejects.
LimitParam(ok, n) == [ok |-> ok, n |-> n]

\* Lines 662-666.
ClampLimit(param) ==
    IF param.ok THEN Max(1, Min(param.n, LimitMax)) ELSE DefaultLimit

\* An index taken at the end of each step instead of its start.
SampleIndex_FromOne(i, total_rows, limit) == ((i + 1) * total_rows) \div limit

\* A step with the ratio inverted.
SampleIndex_InvertedStep(i, total_rows, limit) == (i * limit) \div total_rows

\* Lines 683 and 686: step = total_rows / limit; index = int(i * step).
\* The double's floor is the floor of the exact quotient for the row counts
\* of the model (the two first differ at 30 rows, by one, at a multiple).
SampleIndex(i, total_rows, limit) == (i * total_rows) \div limit

\* The loop "for i in range(limit)" from i on: the indices appended.
RECURSIVE SampleLoop(_, _, _, _)
SampleLoop(total_rows, limit, i, acc) ==
    IF i >= limit THEN acc
    ELSE LET index == SampleIndex(i, total_rows, limit)
         IN  SampleLoop(total_rows, limit, i + 1,
                        IF index < total_rows THEN Append(acc, index) ELSE acc)

SampleIndices(total_rows, limit) == SampleLoop(total_rows, limit, 0, <<>>)

\* Lines 676-699.
Preview(data, limit) ==
    LET total_rows == Len(data)
        is_sampled == total_rows > limit
        indices == IF is_sampled THEN SampleIndices(total_rows, limit)
                   ELSE [i \in 1..total_rows |-> i - 1]
        preview_data == IF is_sampled
                        THEN [j \in 1..Len(indices) |-> data[indices[j] + 1]]
                        ELSE data
    IN  [status |-> 200, detail |-> "", data |-> preview_data,
         total_rows |-> total_rows, preview_rows |-> Len(preview_data),
         is_sampled |-> is_sampled, indices |-> indices]

----------------------------------------------------------------------------
(* Requests *)

\* Row index strings a request uses: "0", "1", "01" and "x".
RowKeys == {<<"0">>, <<"1">>, <<"0", "1">>, <<"x">>}

\* Column names a request uses; SchemaA has no column b.
ColumnNames == {"a", "b"}

\* Values of the requests that vary in shape.
CoreRaw == {JNum("1"), JStr("abc")}

\* Every kind of raw JSON value.
RawValues == {JNull, JBool(TRUE), JNum("1"), JStr("1"), JStr("nan"),
              JStr("abc"), JStr("Yes"), JList, JObj}

\* The item sequences of k cells over distinct columns.
RECURSIVE CellSeqs(_, _, _)
CellSeqs(cols, raws, k) ==
    IF k = 0 THEN {<<>>}
    ELSE UNION {{<<[col |-> c, val |-> v]>> \o rest :
                    v \in raws, rest \in CellSeqs(cols \ {c}, raws, k - 1)} :
                c \in cols}

\* One row of the edits: its key and either an object of cells or another value.
RowEdits(key, is_dict, items) == [key |-> key, is_dict |-> is_dict, items |-> items]

\* The rows of w items: a non-object and an empty object count as one.
RowsOf(keys, cols, raws, w) ==
    {RowEdits(k, TRUE, cs) : k \in keys, cs \in CellSeqs(cols, raws, w)}
    \cup (IF w = 1 THEN {RowEdits(k, d, <<>>) : k \in keys, d \in BOOLEAN} ELSE {})

\* The sequences of rows with distinct keys and w items in all.
RECURSIVE RowSeqs(_, _, _, _)
RowSeqs(keys, cols, raws, w) ==
    IF w = 0 THEN {<<>>}
    ELSE UNION {UNION {{<<e>> \o rest :
                          rest \in RowSeqs(keys \ {e.key}, cols, raws, w - j)} :
                       e \in RowsOf(keys, cols, raws, j)} :
                j \in 1..w}

\* request.data.get("edits", {}): an object of rows, or not an object.
Edits(items) == [is_dict |-> TRUE, items |-> items]
NotAnObject == [is_dict |-> FALSE, items |-> <<>>]

Requests ==
    {NotAnObject} \cup
    {Edits(rs) : rs \in UNION {RowSeqs(RowKeys, ColumnNames, CoreRaw, w) : w \in 0..MaxItems}}

\* One cell of any raw kind in any column of SchemaTypes, or an unknown one.
TypeRequests ==
    {Edits(<<RowEdits(k, TRUE, <<[col |-> c, val |-> v]>>)>>) :
        k \in {<<"0">>, <<"x">>}, c \in DOMAIN SchemaTypes \cup {"zz"}, v \in RawValues}

\* page and page_size query values
PageValues == (0 - 1)..(MaxRows + 1)

\* The page and page_size query parameters: an int, or text int() rejects.
PageParam(ok, n) == [ok |-> ok, n |-> n]

PageParams == {PageParam(TRUE, n) : n \in PageValues} \cup {PageParam(FALSE, 0)}

\* limit query values
LimitParams ==
    {LimitParam(TRUE, n) : n \in (0 - 1)..(MaxRows + 1) \cup {LimitMax, LimitMax + 1}}
    \cup {LimitParam(FALSE, 0)}

NoReq == [op |-> "none"]
NoResp == [op |-> "none"]

----------------------------------------------------------------------------
(* The handlers *)

IngestResponse(status, detail, t) ==
    [op |-> "ingest", status |-> status, detail |-> detail, table |-> t]

\* Lines 330-359: the lazy backfill of an existing table; full is the outcome
\* of the re-parse ("ok", or "fail": the exception caught at line 360).
Backfill(t, file, full) ==
    IF t.full_is_none /\ t.num_rows <= CAP /\ full = "ok" /\ ~ReadFullData(file).is_none
    THEN [t EXCEPT !.full_is_none = FALSE,
                   !.full_data_json = ReadFullData(file).rows]
    ELSE t

\* Lines 380-427: the table a first ingestion creates.
NewTable(file, full) ==
    LET parsed_data == ParseFile(file)
    IN  DataTable(parsed_data.schema, parsed_data.num_rows, parsed_data.sample_data,
                  IF parsed_data.num_rows <= CAP /\ full = "ok"
                  THEN ReadFullData(file)
                  ELSE [is_none |-> TRUE, rows |-> <<>>])

\* A check for an existing table that never finds one.
Existing_Never(existing_table) == FALSE

\* Line 330: if existing_table
Existing(existing_table) == existing_table.found

\* DataIngestionView.post: [tables, resp]. parse is the outcome of parse_file
\* ("ok", "ValueError" or "Exception").
IngestHandler(ts, file, parse, full) ==
    LET existing_table == FirstTable(ts)
    IN  IF Existing(existing_table)
        THEN [tables |-> [ts EXCEPT ![1] = Backfill(existing_table.t, file, full)],
              resp |-> IngestResponse(200, "", Backfill(existing_table.t, file, full))]
        ELSE IF parse = "ValueError"
        THEN [tables |-> ts, resp |-> IngestResponse(400, "ValueError", NoTable)]
        ELSE IF parse # "ok"
        THEN [tables |-> ts, resp |-> IngestResponse(500, "Failed to parse file", NoTable)]
        ELSE [tables |-> Append(ts, NewTable(file, full)),
              resp |-> IngestResponse(201, "", NewTable(file, full))]

\* A check of the error list that never rejects.
HasErrors_Never(validation_errors) == FALSE

\* Line 603: if validation_errors
HasErrors(validation_errors) == validation_errors # <<>>

\* A check for missing full data that never rejects.
FullDataMissing_Never(data) == FALSE

\* Line 543: if data is None
FullDataMissing(data) == data.is_none

PatchResponse(status, detail, errors, applied_edits) ==
    [op |-> "patch", status |-> status, detail |-> detail,
     errors |-> errors, applied_edits |-> applied_edits]

\* DataGridView.patch: [tables, resp].
PatchHandler(ts, edits) ==
    LET data_table == FirstTable(ts)
        schema == GetSchema(data_table.t)
        data == GetDataWithEdits(data_table.t)
        v == Validate(schema, data.rows, edits)
    IN  IF ~data_table.found
        THEN [tables |-> ts,
              resp |-> PatchResponse(404, "No data table found", <<>>, NoEdits)]
        ELSE IF ~edits.is_dict
        THEN [tables |-> ts,
              resp |-> PatchResponse(400, "Edits must be an object", <<>>, NoEdits)]
        ELSE IF FullDataMissing(data)
        THEN [tables |-> ts,
              resp |-> PatchResponse(400, "Full data not available for editing", <<>>, NoEdits)]
        ELSE IF HasErrors(v.validation_errors)
        THEN [tables |-> ts,
              resp |-> PatchResponse(400, "Validation failed", v.validation_errors, NoEdits)]
        ELSE [tables |-> [ts EXCEPT ![1] = ApplyEdits(data_table.t, v.validated_edits)],
              resp |-> PatchResponse(200, "Successfully applied", <<>>, v.validated_edits)]

PageResponse(r) ==
    [op |-> "page", status |-> r.status, detail |-> r.detail,
     data |-> r.data, pagination |-> r.pagination]

\* DataGridView.get. int() of a page or page_size that is no integer raises
\* ValueError outside any try (lines 470-471): the framework answers 500.
PageHandler(ts, page, page_size) ==
    LET data_table == FirstTable(ts)
        data == GetDataWithEdits(data_table.t)
    IN  IF ~data_table.found
        THEN PageResponse([status |-> 404, detail |-> "No data table found",
                           data |-> <<>>, pagination |-> NoPagination])
        ELSE IF ~page.ok \/ ~page_size.ok
        THEN PageResponse([status |-> 500, detail |-> "ValueError",
                           data |-> <<>>, pagination |-> NoPagination])
        ELSE IF data.is_none
        THEN PageResponse([status |-> 404, detail |-> "Full data not available",
                           data |-> <<>>, pagination |-> NoPagination])
        ELSE PageResponse(Paginate(data.rows, page.n, page_size.n))

PreviewResponse(r) ==
    [op |-> "preview", status |-> r.status, detail |-> r.detail, data |-> r.data,
     total_rows |-> r.total_rows, preview_rows |-> r.preview_rows,
     is_sampled |-> r.is_sampled, indices |-> r.indices]

NoPreview(status, detail) ==
    [status |-> status, detail |-> detail, data |-> <<>>, total_rows |-> 0,
     preview_rows |-> 0, is_sampled |-> FALSE, indices |-> <<>>]

\* DataPreviewView.get
PreviewHandler(ts, param) ==
    LET data_table == FirstTable(ts)
        limit == ClampLimit(param)
        data == GetDataWithEdits(data_table.t)
    IN  IF ~data_table.found
        THEN PreviewResponse(NoPreview(404, "No data table found"))
        ELSE IF data.is_none
        THEN PreviewResponse(NoPreview(404, "Full data not available"))
        ELSE PreviewResponse(Preview(data.rows, limit))

----------------------------------------------------------------------------
(* Requests served one after another *)

Workers == {1, 2}

\* The edits worker w sends: one cell of its own row.
ConcRequests(w) ==
    {Edits(<<RowEdits(PyStrInt(w - 1), TRUE, <<[col |-> c, val |-> v]>>)>>) :
        c \in ColumnNames, v \in CoreRaw}

Local(op, edits, parse, full, data_table, response, served) ==
    [op |-> op, edits |-> edits, parse |-> parse, full |-> full,
     data_table |-> data_table, resp |-> response, served |-> served]

InitLocal == Local("none", NotAnObject, "ok", "ok", FirstTable(<<>>), NoResp, 0)

\* The instance a query returned, as the list a handler looks it up in.
Loaded(data_table) == IF data_table.found THEN <<data_table.t>> ELSE <<>>

Ingest(parse, full) ==
    /\ req = NoReq
    /\ req' = [op |-> "ingest", parse |-> parse, full |-> full]
    /\ tables' = IngestHandler(tables, uploaded_file, parse, full).tables
    /\ resp' = IngestHandler(tables, uploaded_file, parse, full).resp
    /\ UNCHANGED <<uploaded_file, pc, local>>

Patch(edits) ==
    /\ req = NoReq
    /\ req' = [op |-> "patch", edits |-> edits]
    /\ tables' = PatchHandler(tables, edits).tables
    /\ resp' = PatchHandler(tables, edits).resp
    /\ UNCHANGED <<uploaded_file, pc, local>>

GetPage(page, page_size) ==
    /\ req = NoReq
    /\ req' = [op |-> "page", page |-> page, page_size |-> page_size]
    /\ resp' = PageHandler(tables, page, page_size)
    /\ UNCHANGED <<uploaded_file, tables, pc, local>>

GetPreview(param) ==
    /\ req = NoReq
    /\ req' = [op |-> "preview", limit |-> param]
    /\ resp' = PreviewHandler(tables, param)
    /\ UNCHANGED <<uploaded_file, tables, pc, local>>

\* The Response is returned to the client and the request ends.
Return ==
    /\ req # NoReq
    /\ req' = NoReq
    /\ resp' = NoResp
    /\ UNCHANGED <<uploaded_file, tables, pc, local>>

InitWith(files) ==
    /\ uploaded_file \in files
    /\ tables = <<>>
    /\ req = NoReq
    /\ resp = NoResp
    /\ pc = [w \in Workers |-> "idle"]
    /\ local = [w \in Workers |-> InitLocal]

Init == InitWith(Files)

\* No request is being answered.
Idle == req.op = "none"

Next ==
    \/ Idle /\ \E parse \in {"ok", "ValueError", "Exception"}, full \in {"ok", "fail"} :
                  Ingest(parse, full)
    \/ Idle /\ \E edits \in Requests : Patch(edits)
    \/ Idle /\ \E page \in PageParams, page_size \in PageParams : GetPage(page, page_size)
    \/ Idle /\ \E param \in LimitParams : GetPreview(param)
    \/ Return

Spec == Init /\ [][Next]_vars

\* One-cell requests of every raw kind against a table with a column of
\* every declared type.
InitTypes == InitWith(TypeFiles)

NextTypes ==
    \/ Idle /\ \E parse \in {"ok", "ValueError", "Exception"}, full \in {"ok", "fail"} :
                  Ingest(parse, full)
    \/ Idle /\ \E edits \in TypeRequests : Patch(edits)
    \/ Return

SpecTypes == InitTypes /\ [][NextTypes]_vars

----------------------------------------------------------------------------
(* Requests served by concurrent workers. A handler touches the database   *)
(* twice: the query that loads the model instance, and save()/create().    *)
(* Everything between the two works on the loaded instance.                *)

\* Line 523: the worker loads the project's table.
StartPatch(w, edits) ==
    /\ pc[w] = "idle"
    /\ local[w].served < MaxServed
    /\ pc' = [pc EXCEPT ![w] = "patch"]
    /\ local' = [local EXCEPT ![w] =
                    Local("patch", edits, "ok", "ok", FirstTable(tables), NoResp, @.served)]
    /\ UNCHANGED <<uploaded_file, tables, req, resp>>

\* Lines 531-622 on the loaded instance; data_table.save() writes the whole
\* instance back.
FinishPatch(w) ==
    /\ pc[w] = "patch"
    /\ LET r == PatchHandler(Loaded(local[w].data_table), local[w].edits)
       IN  /\ tables' = IF r.resp.status = 200
                        THEN [tables EXCEPT ![1] = r.tables[1]]
                        ELSE tables
           /\ local' = [local EXCEPT ![w].resp = r.resp, ![w].served = @ + 1]
    /\ pc' = [pc EXCEPT ![w] = "idle"]
    /\ UNCHANGED <<uploaded_file, req, resp>>

\* Line 326: the worker looks for the file's table.
StartIngest(w, parse, full) ==
    /\ pc[w] = "idle"
    /\ local[w].served < MaxServed
    /\ pc' = [pc EXCEPT ![w] = "ingest"]
    /\ local' = [local EXCEPT ![w] =
                    Local("ingest", NotAnObject, parse, full, FirstTable(tables),
                          NoResp, @.served)]
    /\ UNCHANGED <<uploaded_file, tables, req, resp>>

\* Lines 330-430 on what the query returned: existing_table.save() after a
\* backfill writes the whole instance back; create() adds a table.
FinishIngest(w) ==
    /\ pc[w] = "ingest"
    /\ LET existing_table == local[w].data_table
           r == IngestHandler(Loaded(existing_table), uploaded_file,
                              local[w].parse, local[w].full)
       IN  /\ tables' = IF existing_table.found
                        THEN IF r.tables[1] # existing_table.t
                             THEN [tables EXCEPT ![1] = r.tables[1]]
                             ELSE tables
                        ELSE IF r.resp.status = 201
                             THEN Append(tables, r.tables[1])
                             ELSE tables
           /\ local' = [local EXCEPT ![w].resp = r.resp, ![w].served = @ + 1]
    /\ pc' = [pc EXCEPT ![w] = "idle"]
    /\ UNCHANGED <<uploaded_file, req, resp>>

InitConc ==
    /\ uploaded_file = File(".csv", SchemaAB, 2, FALSE)
    /\ tables = <<>>
    /\ req = NoReq
    /\ resp = NoResp
    /\ pc = [w \in Workers |-> "idle"]
    /\ local = [w \in Workers |-> InitLocal]

NextConc ==
    \/ \E w \in Workers : \E edits \in ConcRequests(w) : StartPatch(w, edits)
    \/ \E w \in Workers : FinishPatch(w)
    \/ \E w \in Workers : \E parse \in {"ok", "Exception"}, full \in {"ok", "fail"} :
          StartIngest(w, parse, full)
    \/ \E w \in Workers : FinishIngest(w)

SpecConc == InitConc /\ [][NextConc]_vars

----------------------------------------------------------------------------
(* Properties *)

\* The table the grid handlers work on has full data.
HasFullData == Len(tables) >= 1 /\ ~tables[1].full_is_none

\* The table is sample-only.
SampleOnly == Len(tables) >= 1 /\ tables[1].full_is_none

\* The (row key, column) cells of an overlay or of a request's applied edits.
CellsOf(overlay) ==
    UNION {{<<k, c>> : c \in DOMAIN overlay[k]} : k \in DOMAIN overlay}

\* The value the merged data shows at a cell.
Shown(t, cell) == GetDataWithEdits(t).rows[PyInt(cell[1]).n + 1][cell[2]]

\* C1: an accepted applyEdits request E2 leaves in the data read afterwards
\* its own value at each of its cells and, at every cell an earlier accepted
\* request E wrote that E2 does not name, the value E wrote: also when E2
\* names the cell's row with another column. (The overlay before the step
\* holds what the earlier accepted requests wrote.)
C1_LaterEditsKeepEarlierCells ==
    [][(req'.op = "patch" /\ resp'.status = 200) =>
          /\ \A cell \in CellsOf(resp'.applied_edits) :
                Shown(tables'[1], cell) = resp'.applied_edits[cell[1]][cell[2]]
          /\ \A cell \in CellsOf(tables[1].edited_data_json)
                           \ CellsOf(resp'.applied_edits) :
                Shown(tables'[1], cell) = tables[1].edited_data_json[cell[1]][cell[2]]
      ]_vars

\* What validation has to report for a request's row: the row itself when
\* its key or its value is bad, else each of its bad cells.
BadRow(row, len_data) ==
    \/ ~PyInt(row.key).ok
    \/ ~(0 <= PyInt(row.key).n /\ PyInt(row.key).n < len_data)
    \/ ~row.is_dict

BadCell(schema, cell) ==
    \/ cell.col \notin DOMAIN schema
    \/ ~CoerceValue(schema[cell.col], cell.val).ok

BadCells(schema, row) == {i \in 1..Len(row.items) : BadCell(schema, row.items[i])}

RECURSIVE ExpectedErrors(_, _, _, _)
ExpectedErrors(schema, len_data, rows, i) ==
    IF i > Len(rows) THEN 0
    ELSE (IF BadRow(rows[i], len_data) THEN 1
          ELSE Cardinality(BadCells(schema, rows[i])))
         + ExpectedErrors(schema, len_data, rows, i + 1)

\* Each bad row and each bad cell of a good row is named by an error.
AllNamed(schema, len_data, rows, errors) ==
    \A i \in 1..Len(rows) :
        IF ~PyInt(rows[i].key).ok
        THEN \E j \in 1..Len(errors) :
                errors[j].e = "invalid row index" /\ errors[j].row = rows[i].key
        ELSE IF BadRow(rows[i], len_data)
        THEN \E j \in 1..Len(errors) :
                /\ errors[j].e \in {"out of range", "not an object"}
                /\ PyInt(errors[j].row).n = PyInt(rows[i].key).n
        ELSE \A c \in BadCells(schema, rows[i]) :
                \E j \in 1..Len(errors) :
                    /\ errors[j].e \in {"unknown column", "invalid value"}
                    /\ PyInt(errors[j].row).n = PyInt(rows[i].key).n
                    /\ errors[j].col = rows[i].items[c].col

\* C2: a request to a table with full data in which at least one row or cell
\* fails validation writes nothing (the stored table, overlay included, is
\* what it was), is answered 400 with no applied edits, and its error list
\* names every failing row and cell, one error each.
C2_AllOrNothing ==
    [][(/\ req'.op = "patch"
        /\ HasFullData
        /\ req'.edits.is_dict
        /\ ExpectedErrors(tables[1].schema_json, Len(tables[1].full_data_json),
                          req'.edits.items, 1) > 0)
       => /\ tables' = tables
          /\ resp'.status = 400
          /\ resp'.applied_edits = NoEdits
          /\ Len(resp'.errors) =
                ExpectedErrors(tables[1].schema_json, Len(tables[1].full_data_json),
                               req'.edits.items, 1)
          /\ AllNamed(tables[1].schema_json, Len(tables[1].full_data_json),
                      req'.edits.items, resp'.errors)
      ]_vars

\* A request with a valid cell and a failing item was rejected while the
\* overlay already held edits.
C2_Witness ==
    /\ req.op = "patch"
    /\ HasFullData
    /\ resp.detail = "Validation failed"
    /\ Len(resp.errors) >= 1
    /\ Len(req.edits.items) >= 2
    /\ tables[1].edited_data_json # NoEdits
    /\ \E i \in 1..Len(req.edits.items) :
          /\ ~BadRow(req.edits.items[i], Len(tables[1].full_data_json))
          /\ \E c \in 1..Len(req.edits.items[i].items) :
                ~BadCell(tables[1].schema_json, req.edits.items[i].items[c])

\* The row keys a request's applied edits name.
RowsNamed(applied_edits) == DOMAIN applied_edits

\* C3: when two workers' latest applyEdits requests both reported success,
\* the stored overlay holds every cell of both. The two requests are taken to
\* name different rows, so that the replacement of a row's entry by a later
\* request for the same row plays no part.
C3_ConcurrentEditsAllKept ==
    \A w1 \in Workers : \A w2 \in Workers \ {w1} :
        (/\ pc[w1] = "idle" /\ pc[w2] = "idle"
         /\ local[w1].op = "patch" /\ local[w2].op = "patch"
         /\ local[w1].resp.status = 200 /\ local[w2].resp.status = 200
         /\ RowsNamed(local[w1].resp.applied_edits)
               \cap RowsNamed(local[w2].resp.applied_edits) = {})
        => CellsOf(local[w1].resp.applied_edits) \subseteq
              CellsOf(tables[1].edited_data_json)

\* The fields of a table the idempotence of ingestion is about.
SameSchemaAndCount(t1, t2) ==
    t1.schema_json = t2.schema_json /\ t1.num_rows = t2.num_rows

SameFullRows(t1, t2) ==
    t1.full_is_none = t2.full_is_none /\ t1.full_data_json = t2.full_data_json

\* An ingest call has returned a table.
IngestReturnsTable == req.op = "ingest" /\ resp.status \in {200, 201}

\* C4 as stated: every ingest call that returns a table leaves exactly one
\* table, returns the stored one, and, when a table existed before the call,
\* returns the schema, row count and full rows that table had (which are what
\* the earlier calls returned: no other request writes these fields).
C4_IngestIdempotent ==
    [][IngestReturnsTable' =>
          /\ Len(tables') = 1
          /\ resp'.table = tables'[1]
          /\ Len(tables) >= 1 =>
                /\ SameSchemaAndCount(resp'.table, tables[1])
                /\ SameFullRows(resp'.table, tables[1])
      ]_vars

\* C4 amended: every ingest call that returns a table leaves exactly one
\* table and returns the stored one; a call that finds a table is answered
\* 200 whatever the parser would do, with the same schema and row count, the
\* same overlay and sample, and the same full rows when the table had them;
\* when it had none, the call returns either none again or the sanitized rows
\* of the file (lazy backfill, only within the cap).
C4_IngestIdempotentUpToBackfill ==
    [][(req'.op = "ingest" /\ (Len(tables) >= 1 \/ resp'.status \in {200, 201})) =>
          /\ Len(tables') = 1
          /\ resp'.table = tables'[1]
          /\ Len(tables) >= 1 =>
                /\ resp'.status = 200
                /\ SameSchemaAndCount(resp'.table, tables[1])
                /\ resp'.table.edited_data_json = tables[1].edited_data_json
                /\ resp'.table.sample_json = tables[1].sample_json
                /\ ~tables[1].full_is_none => SameFullRows(resp'.table, tables[1])
                /\ tables[1].full_is_none =>
                      \/ SameFullRows(resp'.table, tables[1])
                      \/ /\ ~resp'.table.full_is_none
                         /\ tables[1].num_rows <= CAP
                         /\ resp'.table.full_data_json = Sanitize(uploaded_file.rows)
      ]_vars

\* A repeated ingest call, whose parse would now fail, returned the existing
\* table with its full rows and a non-empty overlay.
C4_Witness ==
    /\ req.op = "ingest"
    /\ req.parse # "ok"
    /\ resp.status = 200
    /\ HasFullData
    /\ Len(tables[1].full_data_json) >= 2
    /\ tables[1].edited_data_json # NoEdits

\* The merged (base + overlay) rows of the stored table.
Merged == GetDataWithEdits(tables[1]).rows

\* totalPages for a page size of at least 1.
TotalPages(total_rows, page_size) == (total_rows + page_size - 1) \div page_size

\* The slices getPage returns for pages p..last, one after another.
RECURSIVE ConcatPages(_, _, _)
ConcatPages(page_size, p, last) ==
    IF p > last THEN <<>>
    ELSE PageHandler(tables, PageParam(TRUE, p), PageParam(TRUE, page_size)).data
         \o ConcatPages(page_size, p + 1, last)

\* C5: pagination coverage. Between requests, for the stored table with full
\* rows and every page size of at least 1, getPage succeeds for each page
\* 1..totalPages and the slices, in order, are exactly the merged rows; and a
\* page 1..totalPages that has been requested was answered with the rows of
\* its place in the merged sequence and the same totalPages.
C5_PaginationCoverage ==
    /\ (Idle /\ HasFullData) =>
          \A page_size \in 1..(MaxRows + 1) :
              LET last == TotalPages(Len(Merged), page_size)
              IN  /\ \A p \in 1..last :
                        PageHandler(tables, PageParam(TRUE, p),
                                    PageParam(TRUE, page_size)).status = 200
                  /\ ConcatPages(page_size, 1, last) = Merged
    /\ (/\ req.op = "page" /\ HasFullData
        /\ req.page.ok /\ req.page_size.ok /\ req.page_size.n >= 1
        /\ req.page.n \in 1..TotalPages(Len(Merged), req.page_size.n)) =>
          /\ resp.status = 200
          /\ resp.pagination.total_pages = TotalPages(Len(Merged), req.page_size.n)
          /\ resp.data = SubSeq(Merged, (req.page.n - 1) * req.page_size.n + 1,
                                Min(req.page.n * req.page_size.n, Len(Merged)))

\* The last of at least two pages was returned, shorter than the page size,
\* from a table with edits.
C5_Witness ==
    /\ req.op = "page" /\ HasFullData
    /\ resp.status = 200
    /\ resp.pagination.total_pages >= 2
    /\ req.page.n = resp.pagination.total_pages
    /\ Len(resp.data) >= 1
    /\ Len(resp.data) < req.page_size.n
    /\ tables[1].edited_data_json # NoEdits

\* The answer is the page-out-of-range error.
PageOutOfRange == resp.status = 400 /\ resp.detail = "Page out of range."

\* C6: a getPage request with an integer page and a page size of at least 1
\* on a table with full rows fails with the page-out-of-range error exactly
\* when (page-1)*pageSize is at least the number of rows, except that page 1
\* of an empty row sequence is answered successfully with an empty slice.
C6_OutOfRangeExceptFirstOfEmpty ==
    (/\ req.op = "page" /\ HasFullData
     /\ req.page.ok /\ req.page_size.ok /\ req.page_size.n >= 1) =>
        LET start == (req.page.n - 1) * req.page_size.n
            first_of_empty == req.page.n = 1 /\ Len(Merged) = 0
        IN  /\ PageOutOfRange <=> (start >= Len(Merged) /\ ~first_of_empty)
            /\ first_of_empty => (resp.status = 200 /\ resp.data = <<>>)

\* The indices are strictly increasing and are indices of total_rows rows.
StrictlyIncreasing(indices, total_rows) ==
    /\ \A j \in 1..Len(indices) : 0 <= indices[j] /\ indices[j] < total_rows
    /\ \A j \in 1..(Len(indices) - 1) : indices[j] < indices[j + 1]

\* Row counts up to which the sampling loop is checked on its own.
MaxSample == 8

\* C7: sampling bounds. A preview answered from a table with full rows uses
\* a limit in 1..10000 and returns at most limit rows; when the merged rows
\* number at most limit they are returned whole, not sampled; when sampling
\* happens the rows returned are those at the selected indices, which are
\* strictly increasing. The loop's indices are strictly increasing also for
\* every row count up to MaxSample and every smaller limit.
C7_SamplingBounds ==
    (req.op = "preview" /\ HasFullData) =>
        LET limit == ClampLimit(req.limit)
        IN  /\ 1 <= limit /\ limit <= 10000
            /\ resp.status = 200
            /\ Len(resp.data) <= limit
            /\ resp.preview_rows = Len(resp.data)
            /\ Len(Merged) <= limit => (resp.data = Merged /\ ~resp.is_sampled)
            /\ resp.is_sampled =>
                  /\ Len(Merged) > limit
                  /\ StrictlyIncreasing(resp.indices, Len(Merged))
                  /\ Len(resp.data) = Len(resp.indices)
                  /\ \A j \in 1..Len(resp.data) :
                        resp.data[j] = Merged[resp.indices[j] + 1]
            /\ \A total_rows \in 1..MaxSample : \A l \in 1..(total_rows - 1) :
                  /\ Len(SampleIndices(total_rows, l)) <= l
                  /\ StrictlyIncreasing(SampleIndices(total_rows, l), total_rows)

\* A preview was sampled down to at least two rows of a table with edits.
C7_Witness ==
    /\ req.op = "preview" /\ HasFullData
    /\ resp.status = 200
    /\ resp.is_sampled
    /\ Len(resp.data) >= 2
    /\ Len(resp.data) < Len(Merged)
    /\ tables[1].edited_data_json # NoEdits

\* The row keys str() gives for the indices of len_data rows.
ValidRowKeys(len_data) == {PyStrInt(j) : j \in 0..(len_data - 1)}

\* The request names a row whose index parses and lies outside the data, or a
\* column the schema does not have.
NamesOutOfRangeRow(edits, len_data) ==
    \E i \in 1..Len(edits.items) :
        /\ PyInt(edits.items[i].key).ok
        /\ ~(0 <= PyInt(edits.items[i].key).n /\ PyInt(edits.items[i].key).n < len_data)

NamesUnknownColumn(edits, schema) ==
    \E i \in 1..Len(edits.items) : \E c \in 1..Len(edits.items[i].items) :
        edits.items[i].items[c].col \notin DOMAIN schema

\* C8: overlay well-formedness. In every reachable state every row key of a
\* stored overlay is the decimal string of an index of the table's full rows
\* (a sample-only table has an empty overlay) and every column under it is a
\* column of the schema; and a request that names an out-of-range row index or
\* an unknown column is answered with an error and changes nothing: on a table
\* with full data, 400 with at least one validation error.
C8_OverlayWellFormed ==
    /\ \A n \in 1..Len(tables) :
          /\ tables[n].full_is_none => tables[n].edited_data_json = NoEdits
          /\ \A k \in DOMAIN tables[n].edited_data_json :
                /\ k \in ValidRowKeys(Len(tables[n].full_data_json))
                /\ DOMAIN tables[n].edited_data_json[k] \subseteq DOMAIN tables[n].schema_json
                /\ DOMAIN tables[n].edited_data_json[k] # {}
    /\ (/\ req.op = "patch" /\ Len(tables) >= 1 /\ req.edits.is_dict
        /\ \/ NamesOutOfRangeRow(req.edits, Len(tables[1].full_data_json))
           \/ NamesUnknownColumn(req.edits, tables[1].schema_json)) =>
          /\ resp.status = 400
          /\ resp.applied_edits = NoEdits
          /\ HasFullData => (resp.detail = "Validation failed" /\ Len(resp.errors) >= 1)

\* A request naming an out-of-range row next to a valid cell was rejected
\* with an out-of-range error while the overlay held edits.
C8_Witness ==
    /\ req.op = "patch" /\ HasFullData
    /\ tables[1].edited_data_json # NoEdits
    /\ NamesOutOfRangeRow(req.edits, Len(tables[1].full_data_json))
    /\ Len(req.edits.items) >= 2
    /\ \E j \in 1..Len(resp.errors) : resp.errors[j].e = "out of range"

\* A value JSON can carry as a scalar: null, a boolean, a finite number or a
\* string.
JsonSafe(value) ==
    \/ value.t \in {"null", "boolean", "string"}
    \/ value.t = "number" /\ value.v \notin {"nan", "inf"}

\* C9: every value stored in an edit overlay is a JSON-safe scalar.
C9_OverlayValuesJsonSafe ==
    \A n \in 1..Len(tables) :
        \A cell \in CellsOf(tables[n].edited_data_json) :
            JsonSafe(tables[n].edited_data_json[cell[1]][cell[2]])

\* The answers of a sample-only table.
FullDataUnavailable ==
    \/ resp.status = 400 /\ resp.detail = "Full data not available for editing"
    \/ resp.status = 404 /\ resp.detail = "Full data not available"

\* C10 as stated: on a sample-only table every applyEdits request, whatever
\* it contains, and every getPage and getPreview request is answered with the
\* full-data-unavailable outcome, without rows, and the overlay stays empty.
C10_SampleOnlyRejectsAll ==
    (SampleOnly /\ req.op \in {"patch", "page", "preview"}) =>
        /\ FullDataUnavailable
        /\ tables[1].edited_data_json = NoEdits
        /\ req.op = "patch" => resp.applied_edits = NoEdits
        /\ req.op \in {"page", "preview"} => resp.data = <<>>

\* C10 amended: on a sample-only table an applyEdits request whose edits are
\* an object (the empty one included) is answered with the
\* full-data-unavailable error and one whose edits are not an object with the
\* edits-must-be-an-object error, both 400 with nothing applied and the
\* overlay unchanged; getPreview, and getPage with integer parameters, return
\* the full-data-unavailable outcome without rows; getPage with a parameter
\* that is no integer fails with a server error, also without rows.
C10_SampleOnlyRejects ==
    (SampleOnly /\ req.op \in {"patch", "page", "preview"}) =>
        /\ tables[1].edited_data_json = NoEdits
        /\ (req.op = "patch" /\ req.edits.is_dict) =>
              (FullDataUnavailable /\ resp.status = 400)
        /\ (req.op = "patch" /\ ~req.edits.is_dict) =>
              (resp.status = 400 /\ resp.detail = "Edits must be an object")
        /\ req.op = "patch" => (resp.applied_edits = NoEdits /\ resp.errors = <<>>)
        /\ (req.op = "page" /\ req.page.ok /\ req.page_size.ok) =>
              (FullDataUnavailable /\ resp.status = 404)
        /\ (req.op = "page" /\ ~(req.page.ok /\ req.page_size.ok)) =>
              resp.status = 500
        /\ req.op = "preview" => (FullDataUnavailable /\ resp.status = 404)
        /\ req.op \in {"page", "preview"} => resp.data = <<>>

\* A request with one well-formed cell for an existing column was rejected
\* by a sample-only table of a file within the cap.
C10_Witness ==
    /\ SampleOnly
    /\ tables[1].num_rows <= CAP
    /\ req.op = "patch"
    /\ req.edits.is_dict
    /\ Len(req.edits.items) = 1
    /\ req.edits.items[1].key = <<"0">>
    /\ Len(req.edits.items[1].items) = 1
    /\ ~BadCell(tables[1].schema_json, req.edits.items[1].items[1])
    /\ FullDataUnavailable

\* The stored fields of a table other than its overlay, and whether a step
\* kept those of table t in t2: the full rows count only once they are set.
SameFixedFields(t, t2) ==
    /\ SameSchemaAndCount(t, t2)
    /\ t.sample_json = t2.sample_json
    /\ ~t.full_is_none => SameFullRows(t, t2)

\* C11: fullRows is write-once. No step removes a table, and every step
\* leaves each stored table's schema, row count and sample rows as they were
\* and, once its full rows are set, its full rows too: the overlay is the
\* only stored field a request changes after ingestion.
C11_FullRowsWriteOnce ==
    [][\A n \in 1..Len(tables) :
          /\ n <= Len(tables')
          /\ SameFixedFields(tables[n], tables'[n])
      ]_vars

\* An accepted request changed what the table shows at a cell, while the
\* full rows stored beneath it are those of the file.
C11_Witness ==
    /\ req.op = "patch" /\ resp.status = 200
    /\ HasFullData
    /\ Merged # tables[1].full_data_json
    /\ tables[1].full_data_json = Sanitize(uploaded_file.rows)

\* The request is one cell of an in-range row in a column of the schema.
OneKnownCell ==
    /\ req.op = "patch" /\ HasFullData /\ req.edits.is_dict
    /\ Len(req.edits.items) = 1
    /\ ~BadRow(req.edits.items[1], Len(tables[1].full_data_json))
    /\ Len(req.edits.items[1].items) = 1
    /\ req.edits.items[1].items[1].col \in DOMAIN tables[1].schema_json

\* The value the overlay holds at the cell of such a request.
StoredAtCell ==
    LET row == req.edits.items[1]
        k == PyStrInt(PyInt(row.key).n)
    IN  IF k \in DOMAIN tables[1].edited_data_json
           /\ row.items[1].col \in DOMAIN tables[1].edited_data_json[k]
        THEN tables[1].edited_data_json[k][row.items[1].col]
        ELSE [t |-> "absent", v |-> ""]

\* The raw value is a number or a string float() parses.
Numeric(raw) == raw.t = "number" \/ (raw.t = "string" /\ PyFloat(raw.v).ok)

\* C12: a null raw value is accepted for any known column and stored as
\* null; for a column declared number a non-null raw value is accepted exactly
\* when it is a number or a string that parses as one, and a number is then
\* stored; any other raw value (a non-numeric string, a boolean, a list, an
\* object) is rejected with one validation error.
C12_NumberValidation ==
    OneKnownCell =>
        LET cell == req.edits.items[1].items[1]
        IN  /\ cell.val.t = "null" => (resp.status = 200 /\ StoredAtCell = JNull)
            /\ (tables[1].schema_json[cell.col] = "number" /\ cell.val.t # "null") =>
                  IF Numeric(cell.val)
                  THEN resp.status = 200 /\ StoredAtCell.t = "number"
                  ELSE /\ resp.status = 400
                       /\ Len(resp.errors) = 1
                       /\ resp.errors[1].e = "invalid value"

\* The place of the last item of the request that writes the cell
\* (row index n, column col); 0 when none does.
LastWriter(rows, n, col) ==
    LET writers == {i \in 1..Len(rows) :
                      /\ PyInt(rows[i].key).n = n
                      /\ \E c \in 1..Len(rows[i].items) : rows[i].items[c].col = col}
    IN  IF writers = {} THEN 0 ELSE CHOOSE i \in writers : \A j \in writers : j <= i

\* The overlay holds value at the cell (row index n, column col).
HoldsCell(overlay, n, col, value) ==
    /\ PyStrInt(n) \in DOMAIN overlay
    /\ col \in DOMAIN overlay[PyStrInt(n)]
    /\ overlay[PyStrInt(n)][col] = value

\* C13: after a request with zero validation errors every cell of the
\* request is in the stored overlay and in the returned applied edits with
\* its accepted value (the last one written, for a cell the request writes
\* twice), also when two keys of the request parse to the same row index.
C13_EveryAcceptedCellStored ==
    (req.op = "patch" /\ resp.status = 200) =>
        \A i \in 1..Len(req.edits.items) :
            \A c \in 1..Len(req.edits.items[i].items) :
                LET row == req.edits.items[i]
                    cell == row.items[c]
                    n == PyInt(row.key).n
                    value == CoerceValue(tables[1].schema_json[cell.col], cell.val).value
                IN  LastWriter(req.edits.items, n, cell.col) = i =>
                        /\ HoldsCell(tables[1].edited_data_json, n, cell.col, value)
                        /\ HoldsCell(resp.applied_edits, n, cell.col, value)

\* The loop appends limit indices, the first 0, each the floor of
\* i * total_rows / limit and an index of the rows.
ExactlyLimit(indices, total_rows, limit) ==
    /\ Len(indices) = limit
    /\ indices[1] = 0
    /\ indices[limit] < total_rows
    /\ \A i \in 0..(limit - 1) :
          /\ indices[i + 1] = (i * total_rows) \div limit
          /\ indices[i + 1] < total_rows

\* C14: a preview that samples returns exactly limit rows: no computed index
\* reaches the number of rows, so the guard skips none; the first row returned
\* is row 0 and the last one's index is below the number of rows. The same
\* holds of the loop alone for every row count up to MaxSample and every
\* smaller limit.
C14_SamplingReturnsLimitRows ==
    (req.op = "preview" /\ HasFullData /\ resp.is_sampled) =>
        /\ Len(resp.data) = ClampLimit(req.limit)
        /\ resp.preview_rows = ClampLimit(req.limit)
        /\ ExactlyLimit(resp.indices, Len(Merged), ClampLimit(req.limit))
        /\ resp.data[1] = Merged[1]
        /\ \A total_rows \in 1..MaxSample : \A l \in 1..(total_rows - 1) :
              ExactlyLimit(SampleIndices(total_rows, l), total_rows, l)

\* A preview of the largest table was sampled to exactly limit rows, at least
\* two, and the last row returned is not the table's last row.
C14_Witness ==
    /\ req.op = "preview" /\ HasFullData
    /\ resp.is_sampled
    /\ Len(Merged) = MaxRows
    /\ Len(resp.data) = ClampLimit(req.limit)
    /\ ClampLimit(req.limit) >= 2
    /\ resp.indices[Len(resp.indices)] < Len(Merged) - 1

\* C15: a getPage request with integer page and page_size that is answered
\* successfully has page >= 1 and page_size >= 1 and carries between 1 and
\* page_size rows, exactly the rows (page-1)*page_size up to end-1 of the
\* merged data.
C15_SuccessfulPageWellFormed ==
    (/\ req.op = "page" /\ HasFullData
     /\ req.page.ok /\ req.page_size.ok
     /\ resp.status = 200) =>
        LET start == (req.page.n - 1) * req.page_size.n
            end == Min(start + req.page_size.n, Len(Merged))
        IN  /\ req.page.n >= 1
            /\ req.page_size.n >= 1
            /\ 1 <= Len(resp.data) /\ Len(resp.data) <= req.page_size.n
            /\ resp.data = SubSeq(Merged, start + 1, end)

\* Worker w's ingest request ends in this step.
IngestEnds(w) == pc[w] = "ingest" /\ pc'[w] = "idle"

\* C16: lazy backfill never loses accepted edits. The step that ends an
\* ingest request, its backfill save included, leaves every cell of the
\* stored overlay (the cells of the applyEdits requests that reported
\* success) in the overlay with its value: it never writes back an older
\* overlay.
C16_BackfillKeepsEdits ==
    [][\A w \in Workers :
          (IngestEnds(w) /\ Len(tables) >= 1) =>
              \A cell \in CellsOf(tables[1].edited_data_json) :
                  /\ cell \in CellsOf(tables'[1].edited_data_json)
                  /\ tables'[1].edited_data_json[cell[1]][cell[2]]
                        = tables[1].edited_data_json[cell[1]][cell[2]]
      ]_vars

\* C17: at most one table exists for the project's uploaded file.
C17_AtMostOneTable == Len(tables) <= 1

====
